---- MODULE Spec2Model ----
(***************************************************************************)
(* State-machine model of the data-loading core of the React-Native demo   *)
(* repository: the usePagination hook (src/unnamed/part_009) and the       *)
(* time-boxed caches documented in src/API_GUIDE.md and                    *)
(* src/examples/README.md.                                                 *)
(*                                                                         *)
(* A React hook keeps its state in useState cells; the functions it hands  *)
(* to the consumer (loadMore, refresh) are closures over the values of the *)
(* render that created them.  State written by a setter is visible to a    *)
(* closure only after the next render has produced a new closure.          *)
(***************************************************************************)
EXTENDS Integers, Sequences, FiniteSets, TLC

(* ------------------------------ bounds -------------------------------- *)
\* pageSize option handed to the hook by its caller
PageSize == 2
\* total number of fetchFn invocations explored
MaxFetches == 3
\* number of fetchFn promises that may be unsettled at once
MaxInFlight == 2

\* number of fetchData() calls a useApi instance makes
MaxRequests == 3

\* largest delay passed to useDebounce, in units of time
MaxDelay == 2

(* --------------------------- program constants ------------------------ *)
\* initialPage = 1 (default of the option)
InitialPage == 1

NoError == "null"
AnError == "Error"

VARIABLES
    data,       \* useState<T[]>([])            accumulated items
    loading,    \* useState(false)
    error,      \* useState<Error | null>(null)
    page,       \* useState(initialPage)
    hasMore,    \* useState(true)
    closure,    \* values of page/loading/hasMore captured by the loadMore and
                \* refresh handles the consumer currently holds
    inflight,   \* fetchFn promises not yet settled, in order of invocation
    lifecycle,  \* "pending" (rendered, mount effect not run), "mounted", "unmounted"
    fetchCalls, \* number of fetchFn invocations so far
    lastOp,     \* the operation that produced the current state
    lastFailedPage, \* history: page of the latest rejected fetch (one that was
                \* alone in flight) that no loadMore call has followed yet
                \* (0: none)
    exhausted,  \* history: a fetch (one that was alone in flight) returned
                \* fewer than pageSize items since construction or the last
                \* refresh() call
    seqFull     \* history: N when all that happened so far is N loadMore calls,
                \* each issued with nothing in flight, each resolved with
                \* pageSize items (and calls still pending or returned early);
                \* -1 otherwise
VARIABLE
    completed   \* history: number of fetches that have resolved since
                \* construction or the last refresh() call

loaderVars == <<data, loading, error, page, hasMore, closure, inflight,
                lifecycle, fetchCalls, lastOp, lastFailedPage, exhausted,
                seqFull, completed>>

(* state of the caches (their operations follow the loader's) *)
VARIABLES
    cacheKind,  \* which cache class the instance under study is: "simple"
                \* (SimpleCache) or "api" (ApiCache)
    taskLimit,  \* how many ApiCache calls the callers keep in progress at once:
                \* 1 when every call is awaited before the next is made
    now,        \* Date.now()
    simple,     \* SimpleCache.cache: Map<string, {data, timestamp}>
    mem,        \* ApiCache.cache: Map<string, CacheEntry>
    store,      \* AsyncStorage: storage key -> stored text
    tasks,      \* ApiCache calls suspended at an await, in order of call
    lastCache,  \* the cache operation step that produced the current state
    written,    \* history: key -> the entry of the latest set(key, ...) call
                \* that has completed since the last clear() call; of the
                \* sets of an earlier run of the app, what AsyncStorage kept
    clearedKeys \* history: the keys for which no set call has been made since
                \* a clear() call completed

cacheVars == <<cacheKind, taskLimit, now, simple, mem, store, tasks, lastCache,
               written, clearedKeys>>

(* state of a fetchWithCache call over getCachedData / setCachedData *)
VARIABLES
    fwStore,    \* AsyncStorage as getCachedData sees it: key -> stored text
    fwCall      \* the fetchWithCache call in progress, or the last one

fwVars == <<fwStore, fwCall>>

(* state of a component that uses useApi(url) *)
VARIABLES
    uaKind,     \* which useApi is under study: "hook" (hooks/useApi.ts of the
                \* README) or "guide" (the one of API_GUIDE.md)
    uaUrl,      \* the url argument of the latest render
    uaData,     \* useState<T | null>(null)
    uaLoading,  \* useState(true)
    uaError,    \* useState<Error | null>(null)
    uaReqs,     \* fetchData() calls not yet settled, in order of call
    uaLifecycle, \* "pending" (rendered, effect not run), "mounted", "unmounted"
    uaStarted,  \* number of fetchData() calls so far
    uaLatest,   \* history: outcome of the request of the latest effect run:
                \* "none", "pending", "ok", "failed"
    uaLast      \* the step that produced the current state

uaVars == <<uaKind, uaUrl, uaData, uaLoading, uaError, uaReqs, uaLifecycle,
            uaStarted, uaLatest, uaLast>>

(* state of a component that uses useDebounce(value, delay) *)
VARIABLES
    dbValue,    \* the value argument of the latest render
    dbDelay,    \* the delay argument of the latest render
    dbDebounced, \* useState<T>(value)
    dbTimers,   \* pending setTimeout callbacks
    dbHeld,     \* history: for how long dbValue has been the value argument
                \* (counted up to MaxDelay)
    dbCleared,  \* history: a pending timer has been cleared because the
                \* value argument changed
    dbLifecycle, \* "pending" (rendered, effect not run), "mounted", "unmounted"
    dbLast      \* the step that produced the current state

dbVars == <<dbValue, dbDelay, dbDebounced, dbTimers, dbHeld, dbCleared,
            dbLifecycle, dbLast>>

\* the state outside the pagination hook and the cache classes
otherVars == <<fwVars, uaVars, dbVars>>

vars == <<loaderVars, cacheVars, otherVars>>

(* ------------------------------ helpers ------------------------------- *)
\* the items fetchFn(p) returns when it returns n of them, in its order
PageContent(p, n) == [i \in 1..n |-> <<p, i>>]

\* solo: the fetch that settled in this step was the only one in flight
\* from its invocation to its settlement; after: the page of the failed
\* fetch whose failure the settled fetch's call directly followed (0: none);
\* stale: refresh() was called while the settled fetch was in flight
Op(name, started, k, via, n, promise, solo) ==
    [op |-> name, started |-> started, k |-> k, via |-> via, n |-> n,
     promise |-> promise, solo |-> solo, after |-> 0, stale |-> FALSE]

\* a new fetchFn promise joins those in flight
Join(fs, k, via) ==
    [i \in 1..Len(fs) |-> [fs[i] EXCEPT !.solo = FALSE]]
        \o <<[page |-> k, via |-> via, solo |-> (fs = <<>>),
              after |-> lastFailedPage, stale |-> FALSE]>>

\* refresh() was called: the fetches in flight predate it
MarkStale(fs, via) ==
    IF via = "refresh"
    THEN [i \in 1..Len(fs) |-> [fs[i] EXCEPT !.stale = TRUE]]
    ELSE fs

\* the values a render hands to useCallback
Snapshot == [page |-> page, loading |-> loading, hasMore |-> hasMore]

(* ------------------------ usePagination.loadMore ---------------------- *)
\* if (loading || !hasMore) return;
EarlyReturn(c) == c.loading \/ ~c.hasMore

\* if (newData.length < pageSize) setHasMore(false);
HasMoreAfter(prev, newData) == IF Len(newData) < PageSize THEN FALSE ELSE prev

\* setData((prev) => (page === initialPage ? newData : [...prev, ...newData]));
DataAfter(prev, capturedPage, newData) ==
    IF capturedPage = InitialPage THEN newData ELSE prev \o newData

\* setPage((prev) => prev + 1);
PageAfterKept(prev) == prev

PageAfter(prev) == prev + 1

\* setError(null), before the fetch is attempted (prev: the error so far)
ErrorAtStartKept(prev) == prev

ErrorAtStart(prev) == NoError

\* catch (err) { setError(err instanceof Error ? err : new Error(...)) }
ErrorAfterCatch == AnError

\* finally { setLoading(false) } runs however the attempt ended
LoadingAfterSuccessOnly(outcome) ==
    IF outcome = "resolve" THEN FALSE ELSE loading

LoadingAfterFinally(outcome) == FALSE

\* How the promise returned by the async function settles, given how
\* fetchFn(page) ended ("resolve", "reject", or "throw" for a synchronous
\* throw): the await sits inside try, and catch swallows both failures.
AsyncResultNoCatch(fetchOutcome) ==
    IF fetchOutcome = "resolve" THEN "fulfilled" ELSE "rejected"

AsyncResult(fetchOutcome) == "fulfilled"

\* The body of loadMore as reached from `via` ("mount", "loadMore" or
\* "refresh"); d, p, h, e are the state cells on entry (refresh has reset
\* them just before).  The closure decides the guard and the page fetched.
LoadMoreBody(via, d, p, h, e, sync) ==
    IF EarlyReturn(closure)
    THEN /\ data' = d /\ page' = p /\ hasMore' = h /\ error' = e
         /\ UNCHANGED <<loading, fetchCalls>>
         /\ inflight' = MarkStale(inflight, via)
         /\ lastOp' = Op(via, FALSE, 0, via, 0, "fulfilled", FALSE)
         /\ lastFailedPage' = 0
         /\ seqFull' = IF via = "refresh" THEN -1 ELSE seqFull
    ELSE /\ fetchCalls < MaxFetches
         /\ fetchCalls' = fetchCalls + 1
         /\ data' = d /\ page' = p /\ hasMore' = h
         /\ IF sync = "throw"
            THEN \* fetchFn threw before returning a promise: catch, finally
                 /\ loading' = LoadingAfterFinally("throw")
                 /\ error' = ErrorAfterCatch
                 /\ inflight' = MarkStale([i \in 1..Len(inflight) |->
                                    [inflight[i] EXCEPT !.solo = FALSE]], via)
                 /\ lastOp' = Op(via, TRUE, closure.page, via, 0, AsyncResult("throw"), FALSE)
                 /\ lastFailedPage' = 0
                 /\ seqFull' = -1
            ELSE \* setLoading(true); setError(null); await fetchFn(page)
                 /\ Len(inflight) < MaxInFlight
                 /\ loading' = TRUE
                 /\ error' = ErrorAtStart(e)
                 /\ inflight' = Join(MarkStale(inflight, via), closure.page, via)
                 /\ lastOp' = Op(via, TRUE, closure.page, via, 0, "none", FALSE)
                 /\ lastFailedPage' = 0
                 /\ seqFull' = IF via = "refresh" \/ inflight # <<>>
                               THEN -1 ELSE seqFull

\* a mount whose effect does not call loadMore
MountWithoutLoad ==
    /\ lifecycle = "pending"
    /\ lifecycle' = "mounted"
    /\ lastOp' = Op("mount", FALSE, 0, "mount", 0, "none", FALSE)
    /\ UNCHANGED <<data, loading, error, page, hasMore, closure, inflight,
                   fetchCalls, lastFailedPage, exhausted, seqFull, completed,
                   cacheVars, otherVars>>

\* useEffect(() => { loadMore(); }, []);
MountEffect ==
    /\ lifecycle = "pending"
    /\ lifecycle' = "mounted"
    /\ \E sync \in {"promise", "throw"} :
          LoadMoreBody("mount", data, page, hasMore, error, sync)
    /\ UNCHANGED <<closure, exhausted, completed, cacheVars, otherVars>>

\* the consumer calls the loadMore handle it holds
LoadMore ==
    /\ lifecycle = "mounted"
    /\ \E sync \in {"promise", "throw"} :
          LoadMoreBody("loadMore", data, page, hasMore, error, sync)
    /\ UNCHANGED <<closure, lifecycle, exhausted, completed, cacheVars,
                   otherVars>>

(* ------------------------ usePagination.refresh ----------------------- *)
\* setData([]); setPage(initialPage); setHasMore(true); setError(null);
\* await loadMore();
Refresh ==
    /\ lifecycle = "mounted"
    /\ \E sync \in {"promise", "throw"} :
          LoadMoreBody("refresh", <<>>, InitialPage, TRUE, NoError, sync)
    /\ exhausted' = FALSE
    /\ completed' = 0
    /\ UNCHANGED <<closure, lifecycle, cacheVars, otherVars>>

(* ------------------------ settlement of a fetch ----------------------- *)
Remove(s, i) == SubSeq(s, 1, i - 1) \o SubSeq(s, i + 1, Len(s))

\* const newData = await fetchFn(page); ... finally { setLoading(false) }
FetchResolve ==
    \E i \in 1..Len(inflight), n \in 0..PageSize :
       LET f == inflight[i]
           newData == PageContent(f.page, n)
       IN /\ hasMore' = HasMoreAfter(hasMore, newData)
          /\ data' = DataAfter(data, f.page, newData)
          /\ page' = PageAfter(page)
          /\ loading' = LoadingAfterFinally("resolve")
          /\ inflight' = Remove(inflight, i)
          /\ lastOp' = [Op("resolve", FALSE, f.page, f.via, n,
                            AsyncResult("resolve"), f.solo)
                            EXCEPT !.after = f.after, !.stale = f.stale]
          /\ exhausted' = (exhausted \/ (f.solo /\ n < PageSize))
          /\ seqFull' = IF seqFull >= 0 /\ n = PageSize THEN seqFull + 1 ELSE -1
          /\ completed' = completed + 1
          /\ UNCHANGED <<error, closure, lifecycle, fetchCalls, lastFailedPage,
                         cacheVars, otherVars>>

\* catch (err) { setError(...) } finally { setLoading(false) }
FetchReject ==
    \E i \in 1..Len(inflight) :
       LET f == inflight[i]
       IN /\ error' = ErrorAfterCatch
          /\ loading' = LoadingAfterFinally("reject")
          /\ inflight' = Remove(inflight, i)
          /\ lastOp' = [Op("reject", FALSE, f.page, f.via, 0,
                            AsyncResult("reject"), f.solo)
                            EXCEPT !.after = f.after, !.stale = f.stale]
          /\ lastFailedPage' = IF f.solo THEN f.page ELSE 0
          /\ seqFull' = -1
          /\ UNCHANGED <<data, page, hasMore, closure, lifecycle, fetchCalls,
                         exhausted, completed, cacheVars, otherVars>>

(* ----------------------------- React ---------------------------------- *)
\* a render re-creates loadMore/refresh over the current state cells
\* (useCallback deps [page, loading, hasMore, ...]) and the consumer
\* picks the new handles up
Render ==
    /\ lifecycle = "mounted"
    /\ closure # Snapshot
    /\ closure' = Snapshot
    /\ lastOp' = Op("render", FALSE, 0, "none", 0, "none", FALSE)
    /\ UNCHANGED <<data, loading, error, page, hasMore, inflight, lifecycle,
                   fetchCalls, lastFailedPage, exhausted, seqFull, completed,
                   cacheVars, otherVars>>

\* the consuming component is torn down; the hook has no cleanup
Unmount ==
    /\ lifecycle = "mounted"
    /\ lifecycle' = "unmounted"
    /\ lastOp' = Op("unmount", FALSE, 0, "none", 0, "none", FALSE)
    /\ UNCHANGED <<data, loading, error, page, hasMore, closure, inflight,
                   fetchCalls, lastFailedPage, exhausted, seqFull, completed,
                   cacheVars, otherVars>>

(* ------------------------- loader: initial state, steps ---------------- *)
LoaderInit ==
    /\ data = <<>>
    /\ loading = FALSE
    /\ error = NoError
    /\ page = InitialPage
    /\ hasMore = TRUE
    /\ closure = [page |-> InitialPage, loading |-> FALSE, hasMore |-> TRUE]
    /\ inflight = <<>>
    /\ lifecycle = "pending"
    /\ fetchCalls = 0
    /\ lastOp = Op("init", FALSE, 0, "none", 0, "none", FALSE)
    /\ lastFailedPage = 0
    /\ exhausted = FALSE
    /\ seqFull = 0
    /\ completed = 0

Next ==
    \/ MountEffect
    \/ LoadMore
    \/ Refresh
    \/ FetchResolve
    \/ FetchReject
    \/ Render
    \/ Unmount



(* ============================== caches ================================ *)
(* SimpleCache (src/examples/README.md) is a synchronous in-memory map    *)
(* with one expiry for the whole cache.  ApiCache (src/API_GUIDE.md)      *)
(* keeps an in-memory Map in front of AsyncStorage; each of its methods   *)
(* is an async function that is suspended at every await of a storage     *)
(* call, and each storage call may fail.  Time is counted in clock ticks. *)

(* ------------------------------ bounds -------------------------------- *)
\* clock ticks explored (Date.now() ranges over 0..MaxTime)
MaxTime == 3
\* expiry values handed to ApiCache.set: 0..MaxTTL
MaxTTL == 1
\* ApiCache calls in progress at once when callers do not await each call
MaxTasks == 2

(* --------------------------- program constants ------------------------ *)
\* private expiry: number = 5 * 60 * 1000, scaled to clock ticks
SimpleExpiry == 2

Keys == {"posts"}
Values == {"v1", "v2"}
Null == "null"

(* ------------------------------ maps ---------------------------------- *)
EmptyMap == [x \in {} |-> Null]
Put(m, k, e) == [x \in DOMAIN m \cup {k} |-> IF x = k THEN e ELSE m[x]]
Del(m, k) == [x \in DOMAIN m \ {k} |-> m[x]]
DelAll(m, ks) == [x \in DOMAIN m \ ks |-> m[x]]

\* `cache_${key}`
StorageKey(k) == <<"cache_", k>>

\* JSON.stringify(entry) and JSON.parse(text) of a CacheEntry
JsonStringify(entry) == <<"{", entry.data, entry.timestamp, entry.expiry, "}">>
JsonParse(text) == [data |-> text[2], timestamp |-> text[3], expiry |-> text[4]]

NoCacheEntry == [data |-> Null, timestamp |-> 0, expiry |-> 0]

\* a suspended ApiCache call.  alone: no other ApiCache call ran between
\* its call and now; failed: a storage call of it failed; foundExpired:
\* it has read an entry whose age exceeds its expiry
Task(op, key, pc, entry, keys, alone, failed, foundExpired) ==
    [op |-> op, key |-> key, pc |-> pc, entry |-> entry, keys |-> keys,
     alone |-> alone, failed |-> failed, foundExpired |-> foundExpired]

\* outcome: "pending" (suspended at an await), "returned", "threw"
CacheOp(cache, op, key, value, outcome, alone, failed, foundExpired) ==
    [cache |-> cache, op |-> op, key |-> key, value |-> value,
     outcome |-> outcome, alone |-> alone, failed |-> failed,
     foundExpired |-> foundExpired]

\* another ApiCache call starts: the suspended ones are no longer alone
Disturb(ts) == [i \in 1..Len(ts) |-> [ts[i] EXCEPT !.alone = FALSE]]

(* ----------------------------- SimpleCache ---------------------------- *)
\* if (now - entry.timestamp > this.expiry)
SimpleIsExpired(entry) == now - entry.timestamp > SimpleExpiry

\* get<T>(key: string): T | null
SimpleGet ==
    \E k \in Keys :
       /\ cacheKind = "simple"
       /\ IF k \notin DOMAIN simple
          THEN /\ lastCache' = CacheOp("simple", "get", k, Null, "returned",
                                       TRUE, FALSE, FALSE)
               /\ UNCHANGED simple
          ELSE IF SimpleIsExpired(simple[k])
          THEN /\ simple' = Del(simple, k)
               /\ lastCache' = CacheOp("simple", "get", k, Null, "returned",
                                       TRUE, FALSE, TRUE)
          ELSE /\ lastCache' = CacheOp("simple", "get", k, simple[k].data,
                                       "returned", TRUE, FALSE, FALSE)
               /\ UNCHANGED simple
       /\ UNCHANGED <<cacheKind, taskLimit, clearedKeys, written, now, mem, store, tasks, loaderVars, otherVars>>

\* set<T>(key: string, data: T): void
SimpleSet ==
    \E k \in Keys, v \in Values :
       /\ cacheKind = "simple"
       /\ simple' = Put(simple, k, [data |-> v, timestamp |-> now])
       /\ lastCache' = CacheOp("simple", "set", k, v, "returned", TRUE, FALSE,
                               FALSE)
       /\ written' = Put(written, k, [data |-> v, timestamp |-> now,
                                      expiry |-> SimpleExpiry])
       /\ clearedKeys' = clearedKeys \ {k}
       /\ UNCHANGED <<cacheKind, taskLimit, now, mem, store, tasks, loaderVars, otherVars>>

\* clear(): void
SimpleClear ==
    /\ cacheKind = "simple"
    /\ simple' = EmptyMap
    /\ lastCache' = CacheOp("simple", "clear", "", Null, "returned", TRUE,
                            FALSE, FALSE)
    /\ written' = EmptyMap
    /\ clearedKeys' = Keys
    /\ UNCHANGED <<cacheKind, taskLimit, now, mem, store, tasks, loaderVars, otherVars>>

(* ------------------------------ ApiCache ------------------------------ *)
\* return Date.now() - entry.timestamp > entry.expiry;
IsExpiredAtBoundary(entry) == now - entry.timestamp >= entry.expiry

IsExpired(entry) == now - entry.timestamp > entry.expiry

\* async get<T>(key), up to the first await: the memory cache is checked
ApiGet ==
    \E k \in Keys :
       /\ cacheKind = "api"
       /\ Len(tasks) < taskLimit
       /\ IF k \in DOMAIN mem /\ ~IsExpired(mem[k])
          THEN /\ lastCache' = CacheOp("api", "get", k, mem[k].data, "returned",
                                       tasks = <<>>, FALSE, FALSE)
               /\ tasks' = Disturb(tasks)
          ELSE /\ tasks' = Disturb(tasks)
                            \o <<Task("get", k, "getItem", NoCacheEntry, {},
                                      tasks = <<>>, FALSE, k \in DOMAIN mem)>>
               /\ lastCache' = CacheOp("api", "get", k, Null, "pending",
                                       tasks = <<>>, FALSE, k \in DOMAIN mem)
       /\ UNCHANGED <<cacheKind, taskLimit, clearedKeys, written, now, simple, mem, store, loaderVars, otherVars>>

\* AsyncStorage serves the getItem(`cache_${key}`) of a suspended get: what
\* it reads now is what the get will see when it resumes.  The task keeps
\* the item read in entry (keys: whether there was one).
ApiGetItemRead ==
    \E i \in 1..Len(tasks), ok \in BOOLEAN :
       LET t == tasks[i]
           sk == StorageKey(t.key)
           found == ok /\ sk \in DOMAIN store
       IN /\ t.op = "get" /\ t.pc = "getItem"
          /\ tasks' = [tasks EXCEPT
                         ![i].pc = "gotItem",
                         ![i].failed = ~ok,
                         ![i].keys = IF found THEN {sk} ELSE {},
                         ![i].entry = IF found THEN JsonParse(store[sk])
                                      ELSE NoCacheEntry]
          /\ lastCache' = CacheOp("api", "get", t.key, Null, "pending",
                                  t.alone, ~ok, t.foundExpired)
          /\ UNCHANGED <<cacheKind, taskLimit, clearedKeys, written, now,
                         simple, mem, store, loaderVars, otherVars>>

\* get resumes after await AsyncStorage.getItem(`cache_${key}`)
ApiGetItemDone ==
    \E i \in 1..Len(tasks) :
       LET t == tasks[i]
       IN /\ t.op = "get" /\ t.pc = "gotItem"
          /\ IF t.failed
             THEN \* catch (error) { return null; }
                  /\ tasks' = Remove(tasks, i)
                  /\ lastCache' = CacheOp("api", "get", t.key, Null, "returned",
                                          t.alone, TRUE, t.foundExpired)
                  /\ UNCHANGED <<mem, store>>
             ELSE IF t.keys = {}
             THEN \* if (!cached) return null;
                  /\ tasks' = Remove(tasks, i)
                  /\ lastCache' = CacheOp("api", "get", t.key, Null, "returned",
                                          t.alone, t.failed, t.foundExpired)
                  /\ UNCHANGED <<mem, store>>
             ELSE IF IsExpired(t.entry)
             THEN \* await AsyncStorage.removeItem(...)
                  /\ tasks' = [tasks EXCEPT ![i].pc = "removeItem",
                                            ![i].foundExpired = TRUE]
                  /\ lastCache' = CacheOp("api", "get", t.key, Null, "pending",
                                          t.alone, t.failed, TRUE)
                  /\ UNCHANGED <<mem, store>>
             ELSE \* this.cache.set(key, entry); return entry.data;
                  /\ mem' = Put(mem, t.key, t.entry)
                  /\ tasks' = Remove(tasks, i)
                  /\ lastCache' = CacheOp("api", "get", t.key, t.entry.data,
                                          "returned", t.alone, t.failed,
                                          t.foundExpired)
                  /\ UNCHANGED store
          /\ UNCHANGED <<cacheKind, taskLimit, clearedKeys, written, now,
                         simple, loaderVars, otherVars>>

\* get resumes after await AsyncStorage.removeItem(`cache_${key}`)
ApiRemoveItemDone ==
    \E i \in 1..Len(tasks), ok \in BOOLEAN :
       LET t == tasks[i]
       IN /\ t.op = "get" /\ t.pc = "removeItem"
          /\ IF ok
             THEN \* this.cache.delete(key); return null;
                  /\ store' = Del(store, StorageKey(t.key))
                  /\ mem' = Del(mem, t.key)
             ELSE \* catch (error) { return null; }
                  UNCHANGED <<mem, store>>
          /\ tasks' = Remove(tasks, i)
          /\ lastCache' = CacheOp("api", "get", t.key, Null, "returned", t.alone,
                                  t.failed \/ ~ok, t.foundExpired)
          /\ UNCHANGED <<cacheKind, taskLimit, clearedKeys, written, now, simple, loaderVars, otherVars>>

\* async set<T>(key, data, expiry), up to the await of setItem
ApiSet ==
    \E k \in Keys, v \in Values, ttl \in 0..MaxTTL :
       LET entry == [data |-> v, timestamp |-> now, expiry |-> ttl]
       IN /\ cacheKind = "api"
          /\ Len(tasks) < taskLimit
          /\ mem' = Put(mem, k, entry)
          /\ tasks' = Disturb(tasks)
                       \o <<Task("set", k, "setItem", entry, {}, tasks = <<>>,
                                 FALSE, FALSE)>>
          /\ lastCache' = CacheOp("api", "set", k, v, "pending", tasks = <<>>,
                                  FALSE, FALSE)
          /\ clearedKeys' = clearedKeys \ {k}
          /\ UNCHANGED <<cacheKind, taskLimit, written, now, simple, store, loaderVars, otherVars>>

\* set resumes after await AsyncStorage.setItem(...)
ApiSetItemDone ==
    \E i \in 1..Len(tasks), ok \in BOOLEAN :
       LET t == tasks[i]
       IN /\ t.op = "set" /\ t.pc = "setItem"
          /\ IF ok
             THEN store' = Put(store, StorageKey(t.key), JsonStringify(t.entry))
             ELSE \* catch (error) { console.error(...) }
                  UNCHANGED store
          /\ tasks' = Remove(tasks, i)
          /\ lastCache' = CacheOp("api", "set", t.key, t.entry.data, "returned",
                                  t.alone, ~ok, FALSE)
          /\ written' = Put(written, t.key, t.entry)
          /\ UNCHANGED <<cacheKind, taskLimit, clearedKeys, now, simple, mem, loaderVars, otherVars>>

\* keys.filter((key) => key.startsWith('cache_'))
CacheKeysOtherPrefix(keys) == {sk \in keys : sk[1] = "cache:"}

CacheKeys(keys) == {sk \in keys : sk[1] = "cache_"}

\* async clear(), up to the await of getAllKeys
ApiClear ==
    /\ cacheKind = "api"
    /\ Len(tasks) < taskLimit
    /\ mem' = EmptyMap
    /\ tasks' = Disturb(tasks)
                 \o <<Task("clear", "", "getAllKeys", NoCacheEntry, {},
                           tasks = <<>>, FALSE, FALSE)>>
    /\ lastCache' = CacheOp("api", "clear", "", Null, "pending", tasks = <<>>,
                            FALSE, FALSE)
    /\ written' = EmptyMap
    /\ UNCHANGED <<cacheKind, taskLimit, clearedKeys, now, simple, store, loaderVars, otherVars>>

\* clear resumes after await AsyncStorage.getAllKeys(); no try/catch
ApiGetAllKeysDone ==
    \E i \in 1..Len(tasks), ok \in BOOLEAN :
       LET t == tasks[i]
           cacheKeys == CacheKeys(DOMAIN store)
       IN /\ t.op = "clear" /\ t.pc = "getAllKeys"
          /\ IF ok
             THEN /\ tasks' = [tasks EXCEPT ![i].pc = "multiRemove",
                                            ![i].keys = cacheKeys]
                  /\ lastCache' = CacheOp("api", "clear", "", Null, "pending",
                                          t.alone, FALSE, FALSE)
             ELSE /\ tasks' = Remove(tasks, i)
                  /\ lastCache' = CacheOp("api", "clear", "", Null, "threw",
                                          t.alone, TRUE, FALSE)
          /\ UNCHANGED <<cacheKind, taskLimit, clearedKeys, written, now, simple, mem, store, loaderVars, otherVars>>

\* clear resumes after await AsyncStorage.multiRemove(cacheKeys)
ApiMultiRemoveDone ==
    \E i \in 1..Len(tasks), ok \in BOOLEAN :
       LET t == tasks[i]
       IN /\ t.op = "clear" /\ t.pc = "multiRemove"
          /\ IF ok
             THEN /\ store' = DelAll(store, t.keys)
                  /\ clearedKeys' = Keys
             ELSE UNCHANGED <<store, clearedKeys>>
          /\ tasks' = Remove(tasks, i)
          /\ lastCache' = CacheOp("api", "clear", "", Null,
                                  IF ok THEN "returned" ELSE "threw",
                                  t.alone, ~ok, FALSE)
          /\ UNCHANGED <<cacheKind, taskLimit, written, now, simple, mem,
                         loaderVars, otherVars>>

\* the app is restarted: the singleton's Map starts empty again
\* (private cache = new Map()), AsyncStorage keeps its items
Restart ==
    /\ tasks = <<>>
    /\ mem # EmptyMap
    /\ mem' = EmptyMap
    /\ lastCache' = CacheOp("api", "restart", "", Null, "returned", TRUE, FALSE,
                            FALSE)
    /\ written' = [k \in {x \in DOMAIN written : StorageKey(x) \in DOMAIN store}
                      |-> JsonParse(store[StorageKey(k)])]
    /\ UNCHANGED <<cacheKind, taskLimit, clearedKeys, now, simple, store, tasks, loaderVars, otherVars>>

\* the clock advances
Tick ==
    /\ now < MaxTime
    /\ now' = now + 1
    /\ lastCache' = CacheOp("none", "tick", "", Null, "returned", TRUE, FALSE,
                            FALSE)
    /\ UNCHANGED <<cacheKind, taskLimit, clearedKeys, written, simple, mem, store, tasks, loaderVars, otherVars>>

(* ------------------------- caches: initial state, steps --------------- *)
CacheInit ==
    /\ cacheKind \in {"simple", "api"}
    /\ taskLimit \in {1, MaxTasks}
    /\ now = 0
    /\ simple = EmptyMap
    /\ mem = EmptyMap
    /\ store = EmptyMap
    /\ tasks = <<>>
    /\ lastCache = CacheOp("none", "init", "", Null, "returned", TRUE, FALSE,
                           FALSE)
    /\ written = EmptyMap
    /\ clearedKeys = {}

CacheNext ==
    \/ SimpleGet
    \/ SimpleSet
    \/ SimpleClear
    \/ ApiGet
    \/ ApiGetItemRead
    \/ ApiGetItemDone
    \/ ApiRemoveItemDone
    \/ ApiSet
    \/ ApiSetItemDone
    \/ ApiClear
    \/ ApiGetAllKeysDone
    \/ ApiMultiRemoveDone
    \/ Restart
    \/ Tick

(* =========================== fetchWithCache =========================== *)
(* fetchWithCache (src/API_GUIDE.md) asks getCachedData for the key and    *)
(* calls fetchFn only when that returns nothing truthy; the result is     *)
(* stored with setCachedData.                                             *)

\* what fetchFn may return: a non-empty string and the empty string
FwValues == {"v1", ""}

\* JavaScript's `if (cached)`: null and the empty string are falsy
Truthy(v) == v \notin {Null, ""}

\* pc: "idle", "fetching" (suspended at await fetchFn()), "returned", "threw"
\* hadFresh / cached: the store held an unexpired entry for the key when the
\* call was made / its data; invoked: times the call has invoked fetchFn;
\* failed: a storage operation of the call failed
FwCallRec(pc, key, ttl, hadFresh, cached, invoked, result, failed) ==
    [pc |-> pc, key |-> key, ttl |-> ttl, hadFresh |-> hadFresh,
     cached |-> cached, invoked |-> invoked, result |-> result,
     failed |-> failed]

\* if (now - entry.timestamp > entry.expiry)
FwExpired(entry) == now - entry.timestamp > entry.expiry

FwHasFresh(k) == k \in DOMAIN fwStore /\ ~FwExpired(JsonParse(fwStore[k]))

\* getCachedData(key): the value it returns (readOk: getItem did not reject)
GetCachedData(k, readOk) ==
    IF readOk /\ FwHasFresh(k) THEN JsonParse(fwStore[k]).data ELSE Null

\* getCachedData(key): the store it leaves (an expired item is removed
\* when removeItem does not reject)
StoreAfterGet(k, readOk, removeOk) ==
    IF readOk /\ k \in DOMAIN fwStore /\ ~FwHasFresh(k) /\ removeOk
    THEN Del(fwStore, k) ELSE fwStore

\* setCachedData(key, data, expiry): the store it leaves
SetCachedData(k, v, ttl, writeOk) ==
    IF writeOk
    THEN Put(fwStore, k, JsonStringify([data |-> v, timestamp |-> now,
                                        expiry |-> ttl]))
    ELSE fwStore

\* fetchWithCache(key, fetchFn, expiry), up to `await fetchFn()`
FetchWithCache ==
    \E k \in Keys, ttl \in 0..MaxTTL, readOk \in BOOLEAN, removeOk \in BOOLEAN :
       LET cached == GetCachedData(k, readOk)
           bad == ~readOk \/ (k \in DOMAIN fwStore /\ ~FwHasFresh(k) /\ ~removeOk)
       IN /\ fwCall.pc # "fetching"
          /\ fwStore' = StoreAfterGet(k, readOk, removeOk)
          /\ IF Truthy(cached)
             THEN \* if (cached) return cached;
                  fwCall' = FwCallRec("returned", k, ttl, FwHasFresh(k),
                                      IF FwHasFresh(k)
                                      THEN JsonParse(fwStore[k]).data ELSE Null,
                                      0, cached, bad)
             ELSE \* const data = await fetchFn();
                  fwCall' = FwCallRec("fetching", k, ttl, FwHasFresh(k),
                                      IF FwHasFresh(k)
                                      THEN JsonParse(fwStore[k]).data ELSE Null,
                                      1, Null, bad)
          /\ UNCHANGED <<loaderVars, cacheVars, uaVars, dbVars>>

\* fetchFn() resolved: await setCachedData(key, data, expiry); return data;
FetchFnResolves ==
    \E v \in FwValues, writeOk \in BOOLEAN :
       /\ fwCall.pc = "fetching"
       /\ fwStore' = SetCachedData(fwCall.key, v, fwCall.ttl, writeOk)
       /\ fwCall' = [fwCall EXCEPT !.pc = "returned", !.result = v,
                                   !.failed = @ \/ ~writeOk]
       /\ UNCHANGED <<loaderVars, cacheVars, uaVars, dbVars>>

\* fetchFn() rejected: fetchWithCache has no try/catch, its promise rejects
FetchFnRejects ==
    /\ fwCall.pc = "fetching"
    /\ fwCall' = [fwCall EXCEPT !.pc = "threw"]
    /\ UNCHANGED <<fwStore, loaderVars, cacheVars, uaVars, dbVars>>

FwInit ==
    /\ fwStore = EmptyMap
    /\ fwCall = FwCallRec("idle", "", 0, FALSE, Null, 0, Null, FALSE)

FwNext ==
    \/ FetchWithCache
    \/ FetchFnResolves
    \/ FetchFnRejects
    \/ Tick

(* ------------------------------- useApi -------------------------------- *)
Urls == {"u1", "u2"}

\* the parsed body of the response to a request for url u (ok: its HTTP
\* status is in 200..299)
Body(u, ok) == <<IF ok THEN "body" ELSE "errorBody", u>>

\* a fetchData() call in progress.  pc: "fetch" (suspended at await
\* fetch(url, options)) or "json" (at await response.json()); ok: the status
\* of the response received; cancelled: the `cancelled` flag of the effect
\* run that made the call; current: that effect run is the latest one (a
\* call made through refetch belongs to no effect run)
UaReq(url, pc, ok, cancelled, current) ==
    [url |-> url, pc |-> pc, ok |-> ok, cancelled |-> cancelled,
     current |-> current]

\* wrote: the step called setData, setError or setLoading
UaOp(op, url, cancelled, wrote) ==
    [op |-> op, url |-> url, cancelled |-> cancelled, wrote |-> wrote]

\* whether a settling fetchData() call calls the setters: the guide wraps
\* each of them in `if (!cancelled)`; the hook tests `cancelled` only after
\* `await fetchData()`, when they have already been called
Writes(kind, cancelled) == kind = "hook" \/ ~cancelled

\* return () => { cancelled = true; }: the cleanup of the latest effect run
Cleanup(reqs) ==
    [i \in 1..Len(reqs) |->
        IF reqs[i].current
        THEN [reqs[i] EXCEPT !.cancelled = TRUE, !.current = FALSE]
        ELSE reqs[i]]

\* useEffect(() => { let cancelled = false; ... fetchData(); ... }): the
\* effect runs after the first render; fetchData runs up to await fetch(...)
UaMount ==
    /\ uaLifecycle = "pending"
    /\ uaLifecycle' = "mounted"
    /\ uaLoading' = TRUE
    /\ uaError' = NoError
    /\ uaStarted' = uaStarted + 1
    /\ uaReqs' = uaReqs \o <<UaReq(uaUrl, "fetch", TRUE, FALSE, TRUE)>>
    /\ uaLatest' = "pending"
    /\ uaLast' = UaOp("mount", uaUrl, FALSE, TRUE)
    /\ UNCHANGED <<uaKind, uaUrl, uaData, loaderVars, cacheVars, fwVars,
                   dbVars>>

\* the component renders with another url: the cleanup of the previous
\* effect run, then the effect runs again
UaSetUrl ==
    \E u \in Urls \ {uaUrl} :
       /\ uaLifecycle = "mounted"
       /\ uaStarted < MaxRequests
       /\ uaUrl' = u
       /\ uaLoading' = TRUE
       /\ uaError' = NoError
       /\ uaStarted' = uaStarted + 1
       /\ uaReqs' = Cleanup(uaReqs) \o <<UaReq(u, "fetch", TRUE, FALSE, TRUE)>>
       /\ uaLatest' = "pending"
       /\ uaLast' = UaOp("setUrl", u, FALSE, TRUE)
       /\ UNCHANGED <<uaKind, uaData, uaLifecycle, loaderVars, cacheVars,
                      fwVars, dbVars>>

\* refetch() of the hook: fetchData() called outside any effect run
UaRefetch ==
    /\ uaKind = "hook"
    /\ uaLifecycle = "mounted"
    /\ uaStarted < MaxRequests
    /\ uaLoading' = TRUE
    /\ uaError' = NoError
    /\ uaStarted' = uaStarted + 1
    /\ uaReqs' = uaReqs \o <<UaReq(uaUrl, "fetch", TRUE, FALSE, FALSE)>>
    /\ uaLast' = UaOp("refetch", uaUrl, FALSE, TRUE)
    /\ UNCHANGED <<uaKind, uaUrl, uaData, uaLifecycle, uaLatest, loaderVars,
                   cacheVars, fwVars, dbVars>>

\* catch (err) { setError(...) } finally { setLoading(false) } of the call r
UaFail(i) ==
    LET r == uaReqs[i]
        w == Writes(uaKind, r.cancelled)
    IN /\ uaError' = IF w THEN AnError ELSE uaError
       /\ uaLoading' = IF w THEN FALSE ELSE uaLoading
       /\ uaReqs' = Remove(uaReqs, i)
       /\ uaLatest' = IF r.current THEN "failed" ELSE uaLatest
       /\ uaLast' = UaOp("failed", r.url, r.cancelled, w)
       /\ UNCHANGED uaData

\* fetchData resumes after await fetch(url, options).  rejected: the
\* request failed at the network; ok: response.ok
UaFetchDone ==
    \E i \in 1..Len(uaReqs), rejected \in BOOLEAN, ok \in BOOLEAN :
       LET r == uaReqs[i]
       IN /\ r.pc = "fetch"
          /\ IF rejected \/ (uaKind = "hook" /\ ~ok)
             THEN \* if (!response.ok) throw new Error(...) in the hook
                  UaFail(i)
             ELSE \* await response.json()
                  /\ uaReqs' = [uaReqs EXCEPT ![i].pc = "json", ![i].ok = ok]
                  /\ uaLast' = UaOp("response", r.url, r.cancelled, FALSE)
                  /\ UNCHANGED <<uaData, uaError, uaLoading, uaLatest>>
          /\ UNCHANGED <<uaKind, uaUrl, uaLifecycle, uaStarted, loaderVars,
                         cacheVars, fwVars, dbVars>>

\* fetchData resumes after await response.json(): setData(result), then
\* finally { setLoading(false) }; or the body does not parse
UaJsonDone ==
    \E i \in 1..Len(uaReqs), parsed \in BOOLEAN :
       LET r == uaReqs[i]
           w == Writes(uaKind, r.cancelled)
       IN /\ r.pc = "json"
          /\ IF parsed
             THEN /\ uaData' = IF w THEN Body(r.url, r.ok) ELSE uaData
                  /\ uaLoading' = IF w THEN FALSE ELSE uaLoading
                  /\ uaReqs' = Remove(uaReqs, i)
                  /\ uaLatest' = IF r.current THEN "ok" ELSE uaLatest
                  /\ uaLast' = UaOp("loaded", r.url, r.cancelled, w)
                  /\ UNCHANGED uaError
             ELSE UaFail(i)
          /\ UNCHANGED <<uaKind, uaUrl, uaLifecycle, uaStarted, loaderVars,
                         cacheVars, fwVars, dbVars>>

\* the component is torn down: the cleanup of the latest effect run
UaUnmount ==
    /\ uaLifecycle = "mounted"
    /\ uaLifecycle' = "unmounted"
    /\ uaReqs' = Cleanup(uaReqs)
    /\ uaLast' = UaOp("unmount", uaUrl, FALSE, FALSE)
    /\ UNCHANGED <<uaKind, uaUrl, uaData, uaLoading, uaError, uaStarted,
                   uaLatest, loaderVars, cacheVars, fwVars, dbVars>>

UaInit ==
    /\ uaKind \in {"hook", "guide"}
    /\ uaUrl \in Urls
    /\ uaData = Null
    /\ uaLoading = TRUE
    /\ uaError = NoError
    /\ uaReqs = <<>>
    /\ uaLifecycle = "pending"
    /\ uaStarted = 0
    /\ uaLatest = "none"
    /\ uaLast = UaOp("init", "", FALSE, FALSE)

UaNext ==
    \/ UaMount
    \/ UaSetUrl
    \/ UaRefetch
    \/ UaFetchDone
    \/ UaJsonDone
    \/ UaUnmount

(* ----------------------------- useDebounce ----------------------------- *)
DbValues == {"a", "b"}

\* a pending setTimeout callback: the value its closure captured and the
\* time left before it is due
Timer(value, left) == [value |-> value, left |-> left]

DbOp(op, value) == [op |-> op, value |-> value]

\* return () => { clearTimeout(handler); }: the cleanup of the latest
\* effect run clears the timer that run set (the only one pending)
ClearTimeoutKept(timers) == timers

ClearTimeout(timers) == {}

\* const handler = setTimeout(() => { setDebouncedValue(value); }, delay)
SetTimeout(timers, value, delay) == timers \cup {Timer(value, delay)}

\* useEffect(() => { const handler = setTimeout(...); ... }): the effect
\* runs after the first render
DbMount ==
    /\ dbLifecycle = "pending"
    /\ dbLifecycle' = "mounted"
    /\ dbTimers' = SetTimeout(dbTimers, dbValue, dbDelay)
    /\ dbLast' = DbOp("mount", dbValue)
    /\ UNCHANGED <<dbValue, dbDelay, dbDebounced, dbHeld, dbCleared,
                   loaderVars, cacheVars, fwVars, uaVars>>

\* the component renders with another value: the cleanup of the previous
\* effect run, then the effect runs again (deps [value, delay])
DbSetValue ==
    \E v \in DbValues \ {dbValue} :
       /\ dbLifecycle = "mounted"
       /\ dbValue' = v
       /\ dbHeld' = 0
       /\ dbTimers' = SetTimeout(ClearTimeout(dbTimers), v, dbDelay)
       /\ dbCleared' = (dbCleared \/ dbTimers # {})
       /\ dbLast' = DbOp("setValue", v)
       /\ UNCHANGED <<dbDelay, dbDebounced, dbLifecycle, loaderVars, cacheVars,
                      fwVars, uaVars>>

\* the component renders with another delay: cleanup, then the effect again
DbSetDelay ==
    \E d \in (0..MaxDelay) \ {dbDelay} :
       /\ dbLifecycle = "mounted"
       /\ dbDelay' = d
       /\ dbTimers' = SetTimeout(ClearTimeout(dbTimers), dbValue, d)
       /\ dbLast' = DbOp("setDelay", dbValue)
       /\ UNCHANGED <<dbValue, dbDebounced, dbHeld, dbCleared, dbLifecycle,
                      loaderVars, cacheVars, fwVars, uaVars>>

\* one unit of time passes
DbTick ==
    /\ dbLifecycle # "unmounted"
    /\ dbHeld < MaxDelay \/ \E t \in dbTimers : t.left > 0
    /\ dbHeld' = IF dbHeld < MaxDelay THEN dbHeld + 1 ELSE dbHeld
    /\ dbTimers' = {Timer(t.value, IF t.left > 0 THEN t.left - 1 ELSE 0) :
                       t \in dbTimers}
    /\ dbLast' = DbOp("tick", dbValue)
    /\ UNCHANGED <<dbValue, dbDelay, dbDebounced, dbCleared, dbLifecycle,
                   loaderVars, cacheVars, fwVars, uaVars>>

\* a timer that is due runs its callback: setDebouncedValue(value)
DbFire ==
    \E t \in dbTimers :
       /\ t.left = 0
       /\ dbDebounced' = t.value
       /\ dbTimers' = dbTimers \ {t}
       /\ dbLast' = DbOp("fire", t.value)
       /\ UNCHANGED <<dbValue, dbDelay, dbHeld, dbCleared, dbLifecycle,
                      loaderVars, cacheVars, fwVars, uaVars>>

\* the component is torn down: the cleanup of the latest effect run
DbUnmount ==
    /\ dbLifecycle = "mounted"
    /\ dbLifecycle' = "unmounted"
    /\ dbTimers' = ClearTimeout(dbTimers)
    /\ dbLast' = DbOp("unmount", dbValue)
    /\ UNCHANGED <<dbValue, dbDelay, dbDebounced, dbHeld, dbCleared,
                   loaderVars, cacheVars, fwVars, uaVars>>

\* useState<T>(value): the debounced value starts as the first input
DbInit ==
    /\ dbValue \in DbValues
    /\ dbDelay \in 0..MaxDelay
    /\ dbDebounced = dbValue
    /\ dbTimers = {}
    /\ dbHeld = 0
    /\ dbCleared = FALSE
    /\ dbLifecycle = "pending"
    /\ dbLast = DbOp("init", dbValue)

DbNext ==
    \/ DbMount
    \/ DbSetValue
    \/ DbSetDelay
    \/ DbTick
    \/ DbFire
    \/ DbUnmount

\* the hooks and helpers outside the study: one fixed configuration
OtherInit ==
    /\ FwInit /\ UaInit /\ DbInit
    /\ uaKind = "hook" /\ uaUrl = "u1"
    /\ dbValue = "a" /\ dbDelay = 0

(* --------------------------- specifications --------------------------- *)
\* the pagination hook (no cache in use)
Init == LoaderInit /\ CacheInit /\ OtherInit /\ cacheKind = "api" /\ taskLimit = 1

Spec == Init /\ [][Next]_vars

\* the caches, every call awaited before the next one is made
SeqCacheInit == LoaderInit /\ CacheInit /\ OtherInit /\ taskLimit = 1

CacheSpec == SeqCacheInit /\ [][CacheNext]_vars

\* ApiCache with up to MaxTasks calls in progress at once
RaceCacheInit == LoaderInit /\ CacheInit /\ OtherInit /\ taskLimit = MaxTasks

CacheRaceSpec == RaceCacheInit /\ [][CacheNext]_vars

\* fetchWithCache over getCachedData / setCachedData
FwSpec == Init /\ [][FwNext]_vars

\* useApi, either version, from any url
UaSpecInit ==
    /\ LoaderInit /\ CacheInit /\ cacheKind = "api" /\ taskLimit = 1
    /\ FwInit /\ UaInit /\ DbInit /\ dbValue = "a" /\ dbDelay = 0

UaSpec == UaSpecInit /\ [][UaNext]_vars

\* useDebounce from any value and delay; the effect of a render runs, time
\* passes and a timer that is due runs its callback
DbSpecInit ==
    /\ LoaderInit /\ CacheInit /\ cacheKind = "api" /\ taskLimit = 1
    /\ FwInit /\ UaInit /\ DbInit /\ uaKind = "hook" /\ uaUrl = "u1"

DbSpec ==
    /\ DbSpecInit /\ [][DbNext]_vars
    /\ WF_vars(DbMount) /\ WF_vars(DbTick) /\ WF_vars(DbFire)

(* ============================== claims ================================ *)

\* a step in which fetchFn is invoked
FetchInvoked == fetchCalls' > fetchCalls

\* the first N full pages, concatenated in page order
RECURSIVE FullPages(_)
FullPages(n) ==
    IF n = 0 THEN <<>>
    ELSE FullPages(n - 1) \o PageContent(InitialPage + n - 1, PageSize)

\* C1: at most one fetch is in flight per usePagination instance: while an
\* earlier fetchFn promise is unsettled, fetchFn is not invoked again, also
\* for calls issued back-to-back before a re-render.
C1_NoFetchWhileInFlight == [][FetchInvoked => inflight = <<>>]_vars

\* C2: a refresh() whose fetch succeeds ends with data equal to exactly the
\* freshly fetched content of page initialPage and page = initialPage + 1,
\* whatever the state it was called from (stated for a refresh whose fetch
\* was the only one in flight).
C2_RefreshEndsWithFirstPage ==
    (lastOp.op = "resolve" /\ lastOp.via = "refresh" /\ lastOp.solo)
        => /\ data = PageContent(InitialPage, lastOp.n)
           /\ page = InitialPage + 1

\* C3: failure isolation: the rejection of fetchFn(k) leaves data, page and
\* hasMore as they were and sets error, and the next loadMore() call that
\* reaches fetchFn passes the same page number k.
C3_FailureIsolation ==
    /\ [][lastOp'.op = "reject" /\ lastOp' # lastOp
            => /\ data' = data /\ page' = page /\ hasMore' = hasMore
               /\ error' = AnError]_vars
    /\ [][lastFailedPage # 0 /\ FetchInvoked => lastOp'.k = lastFailedPage]_vars

\* C4: once a fetch returned fewer than pageSize items, hasMore is false and
\* stays false, and fetchFn is not invoked again, until refresh() is called.
C4_HasMoreTermination ==
    /\ [](exhausted => ~hasMore)
    /\ [][exhausted /\ lastOp'.op # "refresh" => ~FetchInvoked]_vars

\* C5: for a loader that has never failed, after N loadMore calls, each
\* issued after the previous one settled and each resolved with pageSize
\* items, data is the concatenation of the N pages in page order (length
\* N * pageSize).
C5_MonotonicAccumulation ==
    (seqFull >= 0 /\ inflight = <<>>)
        => /\ Len(data) = seqFull * PageSize
           /\ data = FullPages(seqFull)

\* the step completes a cache get (it returns to its caller)
GetReturns ==
    /\ lastCache' # lastCache
    /\ lastCache'.op = "get"
    /\ lastCache'.outcome = "returned"

\* an entry's age does not exceed the TTL
Fresh(timestamp, ttl) == now - timestamp <= ttl

\* the value held for key k by the cache under study, if an entry of age at
\* most its TTL exists in it (ApiCache: in the memory map, else in storage)
FreshValue(k) ==
    IF cacheKind = "simple"
    THEN IF k \in DOMAIN simple /\ Fresh(simple[k].timestamp, SimpleExpiry)
         THEN simple[k].data ELSE Null
    ELSE IF k \in DOMAIN mem /\ Fresh(mem[k].timestamp, mem[k].expiry)
         THEN mem[k].data
    ELSE IF StorageKey(k) \in DOMAIN store
            /\ Fresh(store[StorageKey(k)][3], store[StorageKey(k)][4])
         THEN store[StorageKey(k)][2]
    ELSE Null

\* C6: cache freshness: a get whose storage reads succeed returns the stored
\* value exactly when an entry for the key exists whose age does not exceed
\* its TTL (so at age T - 1 and T the value, at age T + 1 absent), and
\* absent otherwise; no get returns an expired entry.
C6_CacheFreshness ==
    [][GetReturns =>
         /\ ~lastCache'.failed => lastCache'.value = FreshValue(lastCache'.key)
         /\ lastCache'.value \in {Null, FreshValue(lastCache'.key)}]_vars

\* a get has returned the value of an entry whose age is exactly its TTL
C6_Witness ==
    /\ cacheKind = "api"
    /\ lastCache.op = "get" /\ lastCache.outcome = "returned"
    /\ lastCache.value # Null
    /\ lastCache.key \in DOMAIN mem
    /\ mem[lastCache.key].expiry >= 1
    /\ now - mem[lastCache.key].timestamp = mem[lastCache.key].expiry

\* C7: lazy eviction on read: a get that finds an entry whose age exceeds
\* its TTL returns absent, and afterwards the cache holds no entry for the
\* key (ApiCache: neither in the memory map nor in storage).
C7_LazyEviction ==
    (/\ lastCache.op = "get" /\ lastCache.outcome = "returned"
     /\ lastCache.foundExpired /\ ~lastCache.failed)
        => /\ lastCache.value = Null
           /\ lastCache.key \notin DOMAIN simple
           /\ lastCache.key \notin DOMAIN mem
           /\ StorageKey(lastCache.key) \notin DOMAIN store

C9_FailureNeverPropagates ==
    /\ lastOp.promise # "rejected"
    /\ (lastOp.op = "reject" \/ (lastOp.started /\ lastOp.promise # "none"))
          => error = AnError

\* a fetch was rejected, the promise of the call fulfilled and error is set
C9_Witness ==
    /\ lastOp.op = "reject"
    /\ lastOp.promise = "fulfilled"
    /\ error = AnError

\* C10: loading is true if and only if a fetchFn invocation of the instance
\* is still unsettled.
C10_LoadingIffInFlight == loading <=> (inflight # <<>>)

\* a step in which the consumer's loadMore() call ran
LoadMoreCalled == lastOp'.op = "loadMore"

\* C11: loadMore() called while loading is true or hasMore is false is a
\* no-op: fetchFn is not invoked and data, page, hasMore, error and loading
\* are left unchanged.
C11_GuardedLoadMoreIsNoOp ==
    [][LoadMoreCalled /\ (loading \/ ~hasMore)
          => /\ ~FetchInvoked
             /\ UNCHANGED <<data, page, hasMore, error, loading>>]_vars

\* a step in which the consumer's refresh() call ran
RefreshCalled == lastOp'.op = "refresh"

\* fetchFn threw synchronously in this step (the attempt started and ended)
ThrewInCall == lastOp'.started /\ lastOp'.promise # "none"

\* C12: from any idle loader state, refresh() resets data to empty, page to
\* initialPage, hasMore to true and error to null, and immediately starts a
\* fetch of page initialPage, so the loader enters Loading.
C12_RefreshResetsAndLoads ==
    [][RefreshCalled /\ inflight = <<>> /\ ~ThrewInCall
          => /\ data' = <<>> /\ page' = InitialPage /\ hasMore'
             /\ error' = NoError
             /\ FetchInvoked /\ lastOp'.k = InitialPage
             /\ loading']_vars

\* a fetch started by refresh() is still unsettled
RefreshInFlight == \E i \in 1..Len(inflight) : inflight[i].via = "refresh"

\* C13: refresh() calls issued while a refresh's fetch is in flight coalesce
\* into one logical refresh: they invoke fetchFn no further, and once the
\* fetch has settled the state is that of a single refresh (data = the first
\* page, page = initialPage + 1).
C13_RefreshCoalescing ==
    /\ [][RefreshCalled /\ RefreshInFlight => ~FetchInvoked]_vars
    /\ []((lastOp.op = "resolve" /\ lastOp.via = "refresh" /\ inflight = <<>>)
             => /\ data = PageContent(InitialPage, lastOp.n)
                /\ page = InitialPage + 1)

\* a step in which a fetch resolved and its result was applied
ResultApplied == lastOp'.op = "resolve"

\* C14: between construction or a refresh and the next refresh, successive
\* successful fetches carry the page numbers initialPage, initialPage + 1,
\* ... (page counts the successes since the last reset, so the fetch that
\* succeeds next is the one for the current page), and each result is
\* applied to data behind the earlier ones.
C14_PageOrdering ==
    [][ResultApplied /\ lastOp'.solo
          => /\ lastOp'.k = page
             /\ data' = data \o PageContent(page, lastOp'.n)]_vars

\* C15: under any interleaving of loadMore() and refresh() calls and fetch
\* completions, data never contains the content of the same page more than
\* once (items carry the page they came from and their place in it).
C15_NoDuplicateAccumulation ==
    \A i, j \in 1..Len(data) : i # j => data[i] # data[j]

\* C16: when a fetch succeeds with an empty result, hasMore becomes false
\* and data is left unchanged.
C16_EmptyResultKeepsData ==
    [][ResultApplied /\ lastOp'.solo /\ lastOp'.n = 0
          => ~hasMore' /\ data' = data]_vars

\* C17: a short final page is still accumulated: when a fetch returns a
\* non-empty result with fewer than pageSize items, the result is appended
\* to data and hasMore becomes false.
C17_ShortPageAccumulated ==
    [][ResultApplied /\ lastOp'.solo /\ 0 < lastOp'.n /\ lastOp'.n < PageSize
          => /\ data' = data \o PageContent(lastOp'.k, lastOp'.n)
             /\ ~hasMore']_vars

\* a fetch attempt started in this step and is now awaited
AttemptStarted == FetchInvoked /\ ~ThrewInCall

\* the fetch that resolved in this step was the retry of a failed fetch of
\* the same page, alone in flight while it ran
RetrySucceeded ==
    ResultApplied /\ lastOp'.solo /\ lastOp'.after = lastOp'.k

\* C18: error is cleared at the start of every fetch attempt; after a
\* failed loadMore followed by a loadMore that succeeds for the same page,
\* error is null and data holds that page's items.
C18_ErrorClearedOnRetry ==
    /\ [][AttemptStarted => error' = NoError]_vars
    /\ [][RetrySucceeded
            => /\ error' = NoError
               /\ Len(data') >= lastOp'.n
               /\ SubSeq(data', Len(data') - lastOp'.n + 1, Len(data'))
                     = PageContent(lastOp'.k, lastOp'.n)
               /\ (lastOp'.k = InitialPage
                     => data' = PageContent(InitialPage, lastOp'.n))]_vars

\* the first load failed, the second loadMore fetched the same page and
\* returned pageSize items, which are now the data; error is null again
C18_Witness ==
    /\ lastOp.op = "resolve" /\ lastOp.solo /\ lastOp.via = "loadMore"
    /\ lastOp.after = InitialPage /\ lastOp.k = InitialPage
    /\ lastOp.n = PageSize
    /\ data = PageContent(InitialPage, PageSize)
    /\ error = NoError
    /\ fetchCalls = 2

\* the pagination hook, every fetchFn promise eventually settling
LiveSpec == Init /\ [][Next]_vars /\ WF_vars(FetchResolve \/ FetchReject)

\* C19: assuming every fetchFn promise eventually settles, whenever loading
\* is true it eventually becomes false again, on success and on failure
\* alike: the loader never stays stuck in Loading.
C19_LoadingEventuallyFalse == loading ~> ~loading

\* a fetch attempt has ended in failure and loading is false again
C19_Witness ==
    /\ lastOp.op = "reject" /\ ~loading /\ inflight = <<>> /\ fetchCalls >= 1

\* the latest completed set of key k is still within its TTL
WrittenFresh(k) ==
    k \in DOMAIN written /\ Fresh(written[k].timestamp, written[k].expiry)

\* C20: after a set(key, value) call has completed, a get(key) issued
\* afterwards and within the TTL returns value; a later set on the same key
\* overwrites the earlier one, so that once a set has completed a get never
\* returns a value other than that of the latest completed set.
C20_ReadAfterWrite ==
    [][GetReturns
         => /\ (WrittenFresh(lastCache'.key) /\ ~lastCache'.failed)
                 => lastCache'.value = written[lastCache'.key].data
            /\ (lastCache'.key \in DOMAIN written /\ lastCache'.value # Null)
                 => lastCache'.value = written[lastCache'.key].data]_vars

\* a step in which a set call completed while the step before it was the
\* completion of another set call on the same key: the two calls were
\* suspended at their setItem together, i.e. they ran concurrently
SecondOfTwoSetsCompletes ==
    /\ lastCache.op = "set" /\ lastCache.outcome = "returned"
    /\ Len(tasks') < Len(tasks)
    /\ lastCache'.op = "set" /\ lastCache'.outcome = "returned"
    /\ lastCache'.key = lastCache.key
    /\ tasks' = <<>>

\* C21: last-write-wins: after two concurrent set calls on the same key
\* have both completed, the in-memory map and the persistent copy hold the
\* same entry, that of the later-issued call (the one the map holds, since
\* each call writes the map before it is suspended).
C21_LastWriteWins ==
    [][SecondOfTwoSetsCompletes
          => LET k == lastCache'.key
             IN /\ k \in DOMAIN mem'
                /\ StorageKey(k) \in DOMAIN store'
                /\ JsonParse(store'[StorageKey(k)]) = mem'[k]]_vars

C23_CacheNeverThrows == lastCache.outcome # "threw"

\* C24: fetchWithCache(key, fetchFn) does not invoke fetchFn when the cache
\* holds an unexpired entry for key, whatever value was stored, and returns
\* that value; when there is no fresh entry it invokes fetchFn exactly once
\* and stores the result under key (storage failures aside).
C24_CacheShortCircuit ==
    /\ (fwCall.pc # "idle" /\ fwCall.hadFresh /\ ~fwCall.failed)
          => /\ fwCall.invoked = 0
             /\ fwCall.pc = "returned"
             /\ fwCall.result = fwCall.cached
    /\ (fwCall.pc = "returned" /\ ~fwCall.hadFresh /\ ~fwCall.failed)
          => /\ fwCall.invoked = 1
             /\ fwCall.key \in DOMAIN fwStore
             /\ JsonParse(fwStore[fwCall.key]).data = fwCall.result

\* C25: on mount the hook triggers exactly one initial load: fetchFn is
\* invoked once, with initialPage, without any loadMore() or refresh() call
\* from the consumer.
C25_MountLoadsFirstPage ==
    [][lifecycle = "pending" /\ lifecycle' = "mounted"
          => /\ fetchCalls = 0 /\ fetchCalls' = 1
             /\ lastOp'.via = "mount" /\ lastOp'.k = InitialPage]_vars

\* the mount effect has run, its fetch of initialPage is the only one made
C25_Witness ==
    /\ lifecycle = "mounted" /\ lastOp.op = "mount" /\ fetchCalls = 1
    /\ inflight = <<[page |-> InitialPage, via |-> "mount", solo |-> TRUE,
                     after |-> 0, stale |-> FALSE]>>

\* C26: stale results are discarded across a refresh: if refresh() is called
\* while a loadMore fetch is in flight, the late result of that fetch is not
\* applied to the post-refresh state.
C26_StaleResultDiscarded ==
    [][ResultApplied /\ lastOp'.stale /\ lastOp'.via \in {"mount", "loadMore"}
          => UNCHANGED <<data, page, hasMore>>]_vars

\* C27: page is a count of completed pages: in every reachable state page
\* equals initialPage plus the number of fetches that have completed
\* successfully since construction or the last refresh() call, and page
\* never decreases except through refresh().
C27_PageCountsCompleted ==
    /\ [](page = InitialPage + completed)
    /\ [][page' < page => RefreshCalled]_vars

\* two fetches have completed since the last refresh() call
C27_Witness ==
    /\ lastOp.op = "resolve" /\ completed = 2 /\ page = InitialPage + 2
    /\ fetchCalls > 2


\* C28: a clear() that completes while a get(key) is suspended on its
\* AsyncStorage read is not undone by that get: when the clear() has
\* completed, no set of key has been called since, none has completed since
\* the clear() was called and the memory map holds no entry for key, a get
\* of key that returns from its storage read returns absent and leaves the
\* memory map without an entry for key.
C28_ClearNotUndoneByRead ==
    [][GetReturns /\ cacheKind = "api"
          /\ lastCache'.key \in clearedKeys
          /\ lastCache'.key \notin DOMAIN written
          /\ lastCache'.key \notin DOMAIN mem
          => /\ lastCache'.value = Null
             /\ lastCache'.key \notin DOMAIN mem']_vars


\* a fetchData() call of useApi settles in this step
UaSettles == uaLast'.op \in {"loaded", "failed"} /\ Len(uaReqs') < Len(uaReqs)

\* C29: useApi ignores superseded requests: the outcome of a request whose
\* effect run has been cleaned up (the url changed or the component was
\* unmounted while it was in flight) is not written to data, error or
\* loading; and once every request has settled, the request of the latest
\* url having succeeded, data is the response for that url.
C29_SupersededIgnored ==
    /\ [][UaSettles /\ uaLast'.cancelled
            => UNCHANGED <<uaData, uaError, uaLoading>>]_vars
    /\ []((uaReqs = <<>> /\ uaLatest = "ok") => uaData[2] = uaUrl)


\* C30: useDebounce(value, delay): the debounced value changes only to the
\* current input, and only when that input has been the input for a full
\* delay; no timer is pending for an input that has been replaced (its timer
\* was cleared); and when the input and the delay stop changing while the
\* component is mounted, the debounced value eventually equals the input.
C30_Debounce ==
    /\ [][dbDebounced' # dbDebounced
            => dbDebounced' = dbValue /\ dbHeld >= dbDelay]_vars
    /\ [](\A t \in dbTimers : t.value = dbValue)
    /\ \A v \in DbValues, d \in 0..MaxDelay :
          <>[](dbLifecycle # "unmounted" /\ dbValue = v /\ dbDelay = d)
              => <>[](dbDebounced = v)

\* an input was replaced before its delay had elapsed, and a later input,
\* held for a positive delay, has become the debounced value
C30_Witness ==
    /\ dbLast.op = "fire"
    /\ dbCleared
    /\ dbDelay > 0
    /\ dbDebounced = dbValue
    /\ dbTimers = {}

====
